---- MODULE Spec2Model ----
(***************************************************************************)
(* Model of the moderation backend: the analyze-comment and rephrase       *)
(* request handlers (backend/main.py), the multi-style rephrasing client   *)
(* (backend/llama.py), the toxicity client (backend/perspective.py) and    *)
(* the analysis logger (backend/logging_system.py).                        *)
(*                                                                         *)
(* Python strings are sequences of one-character strings.  Floats in       *)
(* [0,1] are integers in hundredths (0.7 is 70, 0.1 is 10).  An Optional   *)
(* value is None (the empty sequence) or Some(v) (a one-element sequence). *)
(* Wall-clock readings (time.time(), timestamps) are not modelled.         *)
(***************************************************************************)
EXTENDS Integers, Sequences, FiniteSets, TLC

None == <<>>
Some(v) == <<v>>
IsNone(o) == o = <<>>
Get(o) == o[1]

(***************************************************************************)
(* Python str operations                                                   *)
(***************************************************************************)
UpperChars ==
    <<"A", "B", "C", "D", "E", "F", "G", "H", "I", "J", "K", "L", "M", "N", "O", "P", "Q", "R", "S", "T", "U", "V", "W", "X", "Y", "Z">>
LowerChars ==
    <<"a", "b", "c", "d", "e", "f", "g", "h", "i", "j", "k", "l", "m", "n", "o", "p", "q", "r", "s", "t", "u", "v", "w", "x", "y", "z">>

UpperSet == {UpperChars[i] : i \in 1..Len(UpperChars)}
ToLower == [c \in UpperSet |-> LowerChars[CHOOSE i \in 1..Len(UpperChars) : UpperChars[i] = c]]

\* str.lower() on one character
LowerChar(c) == IF c \in UpperSet THEN ToLower[c] ELSE c

\* str.lower()
Lower(s) == [i \in 1..Len(s) |-> LowerChar(s[i])]

IsSpace(c) == c \in {" ", "\t", "\n", "\r"}

RECURSIVE LStrip(_)
LStrip(s) == IF s # <<>> /\ IsSpace(Head(s)) THEN LStrip(Tail(s)) ELSE s

RECURSIVE RStrip(_)
RStrip(s) ==
    IF s # <<>> /\ IsSpace(s[Len(s)]) THEN RStrip(SubSeq(s, 1, Len(s) - 1)) ELSE s

\* str.strip()
Strip(s) == RStrip(LStrip(s))

\* str.startswith(p)
StartsWith(s, p) == Len(s) >= Len(p) /\ SubSeq(s, 1, Len(p)) = p

\* str.endswith(p)
EndsWith(s, p) == Len(s) >= Len(p) /\ SubSeq(s, Len(s) - Len(p) + 1, Len(s)) = p

\* ' '.join(s.split()): whitespace runs collapse to one space, none at the ends
RECURSIVE Collapse(_)
Collapse(s) ==
    IF s = <<>> THEN <<>>
    ELSE IF IsSpace(Head(s))
         THEN IF LStrip(s) = <<>> THEN <<>> ELSE <<" ">> \o Collapse(LStrip(s))
         ELSE <<Head(s)>> \o Collapse(Tail(s))

JoinSplit(s) == Collapse(Strip(s))

\* s[:k] for a Python int k (negative k counts from the end) or None
PySliceTo(s, k) ==
    IF IsNone(k) THEN s
    ELSE IF Get(k) >= 0
         THEN SubSeq(s, 1, IF Get(k) < Len(s) THEN Get(k) ELSE Len(s))
         ELSE SubSeq(s, 1, Len(s) + Get(k))

(***************************************************************************)
(* llama.py: response normalizer and fallback selection                    *)
(***************************************************************************)
prefixes_to_remove ==
    << <<"r", "e", "p", "h", "r", "a", "s", "e", "d", " ", "c", "o", "m", "m", "e", "n", "t", ":">>,
       <<"r", "e", "p", "h", "r", "a", "s", "e", ":">>,
       <<"a", "l", "t", "e", "r", "n", "a", "t", "i", "v", "e", ":">>,
       <<"b", "e", "t", "t", "e", "r", " ", "v", "e", "r", "s", "i", "o", "n", ":">>,
       <<"n", "e", "u", "t", "r", "a", "l", " ", "r", "e", "p", "h", "r", "a", "s", "e", ":">>,
       <<"f", "r", "i", "e", "n", "d", "l", "y", " ", "r", "e", "p", "h", "r", "a", "s", "e", ":">>,
       <<"f", "o", "r", "m", "a", "l", " ", "r", "e", "p", "h", "r", "a", "s", "e", ":">>,
       <<"h", "e", "r", "e", "'", "s", " ", "a">>,
       <<"a", " ", "b", "e", "t", "t", "e", "r", " ", "w", "a", "y">>,
       <<"i", "n", "s", "t", "e", "a", "d", ":">>,
       <<"r", "e", "p", "h", "r", "a", "s", "e", "d", ":">> >>

\* one iteration of the prefix loop
RemovePrefix(cleaned, prefix) ==
    IF StartsWith(Lower(cleaned), Lower(prefix))
    THEN Strip(SubSeq(cleaned, Len(prefix) + 1, Len(cleaned)))
    ELSE cleaned

RECURSIVE RemovePrefixes(_, _)
RemovePrefixes(cleaned, i) ==
    IF i > Len(prefixes_to_remove) THEN cleaned
    ELSE RemovePrefixes(RemovePrefix(cleaned, prefixes_to_remove[i]), i + 1)

RemoveQuotes(cleaned) ==
    IF StartsWith(cleaned, <<"\"">>) /\ EndsWith(cleaned, <<"\"">>)
    THEN Strip(SubSeq(cleaned, 2, Len(cleaned) - 1))
    ELSE cleaned

\* faulty variant: the end mark is never added
EnsurePunctuationNever(cleaned) == cleaned

EnsurePunctuation(cleaned) ==
    IF cleaned # <<>> /\ cleaned[Len(cleaned)] \notin {".", "!", "?"}
    THEN cleaned \o <<".">>
    ELSE cleaned

_clean_response(response_text) ==
    EnsurePunctuation(JoinSplit(RemoveQuotes(RemovePrefixes(Strip(response_text), 1))))

fallback_messages ==
    << <<"I", " ", "u", "n", "d", "e", "r", "s", "t", "a", "n", "d", " ", "y", "o", "u", " ", "h", "a", "v", "e", " ", "c", "o", "n", "c", "e", "r", "n", "s", " ", "a", "b", "o", "u", "t", " ", "t", "h", "i", "s", " ", "t", "o", "p", "i", "c", ".">>,
       <<"T", "h", "a", "n", "k", " ", "y", "o", "u", " ", "f", "o", "r", " ", "s", "h", "a", "r", "i", "n", "g", " ", "y", "o", "u", "r", " ", "p", "e", "r", "s", "p", "e", "c", "t", "i", "v", "e", ".">>,
       <<"I", " ", "a", "p", "p", "r", "e", "c", "i", "a", "t", "e", " ", "y", "o", "u", " ", "t", "a", "k", "i", "n", "g", " ", "t", "h", "e", " ", "t", "i", "m", "e", " ", "t", "o", " ", "c", "o", "m", "m", "e", "n", "t", ".">>,
       <<"Y", "o", "u", "r", " ", "f", "e", "e", "d", "b", "a", "c", "k", " ", "h", "a", "s", " ", "b", "e", "e", "n", " ", "n", "o", "t", "e", "d", ".">>,
       <<"I", " ", "r", "e", "c", "o", "g", "n", "i", "z", "e", " ", "t", "h", "i", "s", " ", "i", "s", " ", "a", "n", " ", "i", "m", "p", "o", "r", "t", "a", "n", "t", " ", "i", "s", "s", "u", "e", " ", "t", "o", " ", "y", "o", "u", ".">> >>

\* faulty variant: the index counts the characters that are not spaces
_get_fallback_message_by_content(toxic_comment) ==
    fallback_messages[(Len(SelectSeq(toxic_comment, LAMBDA c : c # " "))
                       % Len(fallback_messages)) + 1]

_get_fallback_message(toxic_comment) ==
    fallback_messages[(Len(toxic_comment) % Len(fallback_messages)) + 1]

(***************************************************************************)
(* Program constants                                                       *)
(***************************************************************************)
MaxTextLen == 2000
MinRephraseLen == 5
DefaultMaxRetries == 2
LegacyMaxRetries == 3
DefaultThreshold == 70
FallbackScore == 10
SoftFailureSleep == 1
TransportFaultSleep == 2
LogTextLimit == 500
LogRephraseLimit == 300
LogErrorLimit == 200

(***************************************************************************)
(* Bounds and input sets of the model                                      *)
(***************************************************************************)
\* largest max_retries handed to rephrase_comment
MaxRetriesBound == 3

\* requests the server is handling at the same time
NumRequests == 2

\* pieces a text handed to _clean_response is made of, at most
MaxTokens == 3

\* times _clean_response is applied in a row
MaxCleanPasses == 2
MaxRows == 2

NEUTRAL == "neutral"
FRIENDLY == "friendly"
FORMAL == "formal"
RephrasingStyle == {NEUTRAL, FRIENDLY, FORMAL}

LongText == [i \in 1..(MaxTextLen + 1) |-> "a"]

Texts ==
    { <<>>,
      <<" ", " ">>,
      <<"Y", "o", "u", " ", "i", "d", "i", "o", "t">>,
      <<"G", "o", " ", "a", "w", "a", "y", "!", "!">>,
      <<"D", "a", "m", "n">>,
      <<" ", "h", "i", " ">>,
      LongText }

\* summaryScore values the toxicity oracle may return
OracleScores == {10, 70, 85}
OracleConfidences == {Some(90)}

\* a reply of the toxicity oracle: the request raised, or a TOXICITY summaryScore
ToxicityReplies ==
    {[raised |-> TRUE, score |-> 0, confidence |-> None]}
    \cup [raised : {FALSE}, score : OracleScores, confidence : OracleConfidences]

\* the 'response' field of a 200 reply of the generation oracle
RawResponses ==
    { <<>>,
      <<"o", "k">>,
      <<"r", "e", "p", "h", "r", "a", "s", "e", ":", " ", "\"", "n", "o", "\"">>,
      <<"i", "d", "i", "o", "t">> }

\* a reply of the generation oracle: RequestException, a non-200 status, a 200
\* whose 'response' is null, or a 200 with text
GenerationReplies ==
    {[kind |-> "exception", text |-> <<>>], [kind |-> "non200", text |-> <<>>],
     [kind |-> "null", text |-> <<>>]}
    \cup [kind : {"ok"}, text : RawResponses]

Thresholds == {None, Some(70)}
StyleLists ==
    {None, Some(<<NEUTRAL>>), Some(<<NEUTRAL, FRIENDLY, FORMAL>>), Some(<<FRIENDLY, FRIENDLY>>)}
MaxRephrases == {Some(3), Some(1), Some(0), Some(0 - 1)}

\* AdvancedCommentRequest
AnalyzeRequests ==
    [text : Texts, toxicity_threshold : Thresholds, include_rephrase : BOOLEAN,
     styles : StyleLists, max_rephrases : MaxRephrases]

(***************************************************************************)
(* perspective.py                                                          *)
(***************************************************************************)
\* PerspectiveAPI.analyze_comment on one oracle reply: every exception is
\* turned into success = False
analyze_comment(reply) ==
    IF reply.raised
    THEN [success |-> FALSE, error |-> "oracle error"]
    ELSE [success |-> TRUE,
          results |-> [toxicity |-> [score |-> reply.score,
                                     confidence |-> reply.confidence]]]

\* faulty variant: the failure of the analysis is raised to the caller
is_toxic_raising(reply, threshold) ==
    LET result == analyze_comment(reply) IN
    IF ~result.success \/ IsNone(threshold)
    THEN [raised |-> TRUE, is_toxic |-> FALSE, toxicity_score |-> 0]
    ELSE [raised |-> FALSE,
          is_toxic |-> result.results.toxicity.score > Get(threshold),
          toxicity_score |-> result.results.toxicity.score]

\* faulty variant: a score equal to the threshold counts as toxic
is_toxic_inclusive(reply, threshold) ==
    LET result == analyze_comment(reply) IN
    IF ~result.success
    THEN [raised |-> FALSE, is_toxic |-> FALSE, toxicity_score |-> 0]
    ELSE IF IsNone(threshold)
         THEN [raised |-> TRUE, is_toxic |-> FALSE, toxicity_score |-> 0]
         ELSE [raised |-> FALSE,
               is_toxic |-> result.results.toxicity.score >= Get(threshold),
               toxicity_score |-> result.results.toxicity.score]

\* PerspectiveAPI.is_toxic: (False, 0.0) when the analysis failed; comparing
\* the score with a None threshold raises TypeError
is_toxic(reply, threshold) ==
    LET result == analyze_comment(reply) IN
    IF ~result.success
    THEN [raised |-> FALSE, is_toxic |-> FALSE, toxicity_score |-> 0]
    ELSE IF IsNone(threshold)
         THEN [raised |-> TRUE, is_toxic |-> FALSE, toxicity_score |-> 0]
         ELSE [raised |-> FALSE,
               is_toxic |-> result.results.toxicity.score > Get(threshold),
               toxicity_score |-> result.results.toxicity.score]

(***************************************************************************)
(* llama.py: one attempt of _generate_single_rephrase                      *)
(***************************************************************************)
ErrRequestFailed(max_retries, cause) ==
    [msg |-> "Request failed after N attempts", max_retries |-> max_retries, detail |-> cause]
ErrFailedToGenerate(max_retries, style) ==
    [msg |-> "Failed to generate rephrase after N attempts", max_retries |-> max_retries,
     detail |-> style]
ErrUnexpected(max_retries, cause) ==
    [msg |-> "Unexpected error", max_retries |-> max_retries, detail |-> cause]

\* the acceptance test of line 128
Usable(rephrased_text) == rephrased_text # <<>> /\ Len(rephrased_text) > MinRephraseLen

\* faulty variant: every failed attempt is followed by the same delay
AttemptOutcomeUniformSleep(reply, attempt, max_retries) ==
    CASE reply.kind = "exception" ->
            IF attempt = max_retries - 1
            THEN [kind |-> "error", sleep |-> 0, text |-> <<>>]
            ELSE [kind |-> "retry", sleep |-> SoftFailureSleep, text |-> <<>>]
      [] reply.kind = "non200" ->
            [kind |-> "retry", sleep |-> SoftFailureSleep, text |-> <<>>]
      [] reply.kind = "null" ->
            [kind |-> "raise", sleep |-> 0, text |-> <<>>]
      [] OTHER ->
            LET rephrased_text == _clean_response(Strip(reply.text)) IN
            IF Usable(rephrased_text)
            THEN [kind |-> "success", sleep |-> 0, text |-> rephrased_text]
            ELSE [kind |-> "retry", sleep |-> SoftFailureSleep, text |-> <<>>]

\* faulty variant: a RequestException at the last attempt only ends the loop
AttemptOutcomeNoEarlyReturn(reply, attempt, max_retries) ==
    CASE reply.kind = "exception" ->
            [kind |-> "retry", sleep |-> TransportFaultSleep, text |-> <<>>]
      [] reply.kind = "non200" ->
            [kind |-> "retry", sleep |-> SoftFailureSleep, text |-> <<>>]
      [] reply.kind = "null" ->
            [kind |-> "raise", sleep |-> 0, text |-> <<>>]
      [] OTHER ->
            LET rephrased_text == _clean_response(Strip(reply.text)) IN
            IF Usable(rephrased_text)
            THEN [kind |-> "success", sleep |-> 0, text |-> rephrased_text]
            ELSE [kind |-> "retry", sleep |-> SoftFailureSleep, text |-> <<>>]

\* what the loop body does with the reply of the call made at index attempt
AttemptOutcome(reply, attempt, max_retries) ==
    CASE reply.kind = "exception" ->
            IF attempt = max_retries - 1
            THEN [kind |-> "error", sleep |-> 0, text |-> <<>>]
            ELSE [kind |-> "retry", sleep |-> TransportFaultSleep, text |-> <<>>]
      [] reply.kind = "non200" ->
            [kind |-> "retry", sleep |-> SoftFailureSleep, text |-> <<>>]
      [] reply.kind = "null" ->
            [kind |-> "raise", sleep |-> 0, text |-> <<>>]
      [] OTHER ->
            LET rephrased_text == _clean_response(Strip(reply.text)) IN
            IF Usable(rephrased_text)
            THEN [kind |-> "success", sleep |-> 0, text |-> rephrased_text]
            ELSE [kind |-> "retry", sleep |-> SoftFailureSleep, text |-> <<>>]

\* what a failed attempt ran into: a RequestException, a non-200 status, or
\* a 200 reply whose text is empty or too short
FailureCause(reply) == IF reply.kind = "ok" THEN "unusable" ELSE reply.kind

\* faulty variant: the counter of the loop is reported as it is
AttemptNumberZeroBased(attempt) == attempt

\* line 133: 'attempt': attempt + 1
AttemptNumber(attempt) == attempt + 1

\* faulty variant: the loop bound is inclusive
LoopContinuesInclusive(attempt, max_retries) == attempt <= max_retries

\* the loop of line 105 runs while attempt < max_retries
LoopContinues(attempt, max_retries) == attempt < max_retries

\* generate_multiple_rephrases, lines 58-65
InitResults(toxic_comment, score, model) ==
    [success |-> TRUE, original_text |-> toxic_comment, toxicity_score |-> score,
     rephrases |-> <<>>, errors |-> <<>>, model_used |-> model,
     fallback_message |-> None]

\* faulty variant: any recorded error marks the result as failed
FinalizeAnyError(res) ==
    IF res.rephrases = <<>> \/ res.errors # <<>>
    THEN [res EXCEPT !.success = FALSE,
                     !.fallback_message = Some(_get_fallback_message(res.original_text))]
    ELSE res

\* generate_multiple_rephrases, lines 91-96
Finalize(res) ==
    IF res.rephrases = <<>>
    THEN [res EXCEPT !.success = FALSE,
                     !.fallback_message = Some(_get_fallback_message(res.original_text))]
    ELSE res

(***************************************************************************)
(* main.py helpers                                                         *)
(***************************************************************************)
\* lines 189-196: StyleEnum members become RephrasingStyle members
RECURSIVE ConvertStyles(_)
ConvertStyles(styles) ==
    IF styles = <<>> THEN <<>>
    ELSE (IF Head(styles) \in RephrasingStyle THEN <<Head(styles)>> ELSE <<>>)
         \o ConvertStyles(Tail(styles))

\* faulty variant: the operands are swapped
ImprovementReversed(original_score, rephrase_score) == rephrase_score - original_score

\* lines 211-219
Improvement(original_score, rephrase_score) == original_score - rephrase_score

ScoredRephrase(rephrase_data, original_score, rephrase_score) ==
    [style |-> rephrase_data.style, text |-> rephrase_data.text,
     toxicity_score |-> rephrase_score,
     improvement |-> Improvement(original_score, rephrase_score)]

\* faulty variant: the fallback entry is scored like an unscored rewrite
FallbackEntryUnscored(fallback_message, original_score) ==
    [style |-> "fallback", text |-> fallback_message,
     toxicity_score |-> 0,
     improvement |-> original_score]

\* faulty variant: the fallback entry is labelled as a neutral rewrite
FallbackEntryAsNeutral(fallback_message, original_score) ==
    [style |-> NEUTRAL, text |-> fallback_message,
     toxicity_score |-> FallbackScore,
     improvement |-> original_score - FallbackScore]

\* lines 226-232
FallbackEntry(fallback_message, original_score) ==
    [style |-> "fallback", text |-> fallback_message,
     toxicity_score |-> FallbackScore,
     improvement |-> original_score - FallbackScore]

\* lines 147, 150: the validation of the stripped text
IsEmptyText(t) == t = <<>>
IsTooLong(t) == Len(t) > MaxTextLen

(***************************************************************************)
(* logging_system.py: the row log_analysis builds                          *)
(***************************************************************************)
DictGet(d, k, default) == IF k \in DOMAIN d THEN d[k] ELSE default

LoggedStyles == {"neutral", "friendly", "formal"}

Max(a, b) == IF a >= b THEN a ELSE b

\* lines 85-95: the maximum starts from 0.0 and skips unknown styles
RECURSIVE BestImprovement(_, _, _)
BestImprovement(rephrases, original_score, best) ==
    IF rephrases = <<>> THEN best
    ELSE LET rephrase == Head(rephrases)
             improvement ==
                 original_score - DictGet(rephrase, "toxicity_score", original_score)
         IN  BestImprovement(Tail(rephrases), original_score,
                 IF DictGet(rephrase, "style", "neutral") \in LoggedStyles
                 THEN Max(best, improvement) ELSE best)

\* lines 79-91: the last rephrase of a style fills that style's columns
RECURSIVE StyleColumn(_, _, _, _, _)
StyleColumn(rephrases, style, field, default, current) ==
    IF rephrases = <<>> THEN current
    ELSE StyleColumn(Tail(rephrases), style, field, default,
             IF DictGet(Head(rephrases), "style", "neutral") = style
             THEN DictGet(Head(rephrases), field, default) ELSE current)

BuildRow(analysis_data) ==
    LET toxicity_info == DictGet(analysis_data, "toxicity", <<>>)
        original_score == DictGet(toxicity_info, "score", 0)
        rephrases == DictGet(analysis_data, "rephrases", <<>>)
        text_of(style) ==
            PySliceTo(StyleColumn(rephrases, style, "text", <<>>, <<>>), Some(LogRephraseLimit))
        score_of(style) == StyleColumn(rephrases, style, "toxicity_score", 0, 0)
    IN  [original_text |->
             PySliceTo(DictGet(analysis_data, "original_text", <<>>), Some(LogTextLimit)),
         original_toxicity_score |-> original_score,
         is_toxic |-> DictGet(toxicity_info, "is_toxic", FALSE),
         toxicity_threshold |-> DictGet(toxicity_info, "threshold_used", Some(DefaultThreshold)),
         rephrasing_requested |->
             (Len(rephrases) > 0 \/ DictGet(analysis_data, "include_rephrase", FALSE)),
         rephrasing_successful |-> Len(rephrases) > 0,
         num_rephrases_generated |-> Len(rephrases),
         neutral_rephrase |-> text_of("neutral"),
         neutral_toxicity_score |-> score_of("neutral"),
         friendly_rephrase |-> text_of("friendly"),
         friendly_toxicity_score |-> score_of("friendly"),
         formal_rephrase |-> text_of("formal"),
         formal_toxicity_score |-> score_of("formal"),
         best_improvement |-> BestImprovement(rephrases, original_score, 0),
         errors |-> PySliceTo(DictGet(analysis_data, "error", <<>>), Some(LogErrorLimit)),
         model_used |-> DictGet(analysis_data, "model_used", "unknown"),
         api_endpoint |-> DictGet(analysis_data, "endpoint", "analyze-comment")]

\* _log_error, lines 144-149: the header line is written before the keys of
\* the record are read, so a record that is not a dict leaves a partial entry
_log_error_body(error_message, is_dict, error_sink_ok) ==
    IF ~error_sink_ok THEN [entries |-> <<>>, raised |-> TRUE]
    ELSE IF ~is_dict
         THEN [entries |-> <<[message |-> error_message, complete |-> FALSE]>>,
               raised |-> TRUE]
         ELSE [entries |-> <<[message |-> error_message, complete |-> TRUE]>>,
               raised |-> FALSE]

\* faulty variant: the except clause is missing
_log_error_uncaught(error_message, is_dict, error_sink_ok) ==
    _log_error_body(error_message, is_dict, error_sink_ok)

\* _log_error with its except Exception: pass
_log_error(error_message, is_dict, error_sink_ok) ==
    [_log_error_body(error_message, is_dict, error_sink_ok) EXCEPT !.raised = FALSE]

\* log_analysis: the row is appended, or the failure goes to the error sink
log_analysis(analysis_data, is_dict, sink_ok, error_sink_ok) ==
    IF is_dict /\ sink_ok
    THEN [rows |-> <<BuildRow(analysis_data)>>, entries |-> <<>>, raised |-> FALSE]
    ELSE LET e == _log_error("Logging failed", is_dict, error_sink_ok)
         IN  [rows |-> <<>>, entries |-> e.entries, raised |-> e.raised]

\* records handed to log_analysis directly (the module's example usage)
SampleAnalysis ==
    [original_text |-> <<"D", "a", "m", "n">>,
     toxicity |-> [score |-> 85, is_toxic |-> TRUE, threshold_used |-> Some(70)],
     rephrases |-> <<[style |-> "neutral", text |-> <<"O", "h", ".">>, toxicity_score |-> 10]>>,
     model_used |-> "llama2",
     include_rephrase |-> TRUE]

\* a record whose only rewrite scores higher than the original text
WorseRewriteAnalysis ==
    [original_text |-> <<"D", "a", "m", "n">>,
     toxicity |-> [score |-> 70, is_toxic |-> FALSE, threshold_used |-> Some(70)],
     rephrases |-> <<[style |-> "neutral", text |-> <<"O", "h", ".">>, toxicity_score |-> 85]>>,
     model_used |-> "llama2",
     include_rephrase |-> TRUE]

LogRequests ==
    {[analysis_data |-> SampleAnalysis, is_dict |-> TRUE],
     [analysis_data |-> WorseRewriteAnalysis, is_dict |-> TRUE],
     [analysis_data |-> <<>>, is_dict |-> TRUE],
     [analysis_data |-> <<>>, is_dict |-> FALSE]}

\* rephrase_comment(toxic_comment, toxicity_score, max_retries)
RephraseCommentRequests ==
    [text : {<<"D", "a", "m", "n">>, <<"Y", "o", "u", " ", "i", "d", "i", "o", "t">>},
     toxicity_score : {None, Some(85)},
     max_retries : 0..MaxRetriesBound]

\* the JSON body of /api/rephrase
RephraseOnlyRequests ==
    [text : {<<>>, <<" ", "h", "i", " ">>, <<"D", "a", "m", "n">>},
     styles : {None, Some(<<>>),
               Some(<< <<"n", "e", "u", "t", "r", "a", "l">>, <<"F", "O", "R", "M", "A", "L">> >>),
               Some(<< <<"c", "a", "s", "u", "a", "l">> >>)}]

\* lines 312-318 of main.py: names are matched in lower case, others dropped
StyleOfName(name) ==
    LET l == Lower(name) IN
    IF l = <<"n", "e", "u", "t", "r", "a", "l">> THEN <<NEUTRAL>>
    ELSE IF l = <<"f", "r", "i", "e", "n", "d", "l", "y">> THEN <<FRIENDLY>>
    ELSE IF l = <<"f", "o", "r", "m", "a", "l">> THEN <<FORMAL>>
    ELSE <<>>

RECURSIVE ConvertStyleNames(_)
ConvertStyleNames(names) ==
    IF names = <<>> THEN <<>>
    ELSE StyleOfName(Head(names)) \o ConvertStyleNames(Tail(names))

DefaultStyleNames ==
    << <<"n", "e", "u", "t", "r", "a", "l">>,
       <<"f", "r", "i", "e", "n", "d", "l", "y">>,
       <<"f", "o", "r", "m", "a", "l">> >>

(***************************************************************************)
(* State                                                                   *)
(***************************************************************************)
VARIABLES
    perspective_api,    \* main.py global: TRUE when the client was built
    llama_rephraser,    \* main.py global
    toxicity_logger,    \* main.py global
    op,                 \* the operation this behaviour runs
    request,            \* its input
    pc,                 \* position of the running operation
    text,               \* main.py local: the stripped text
    toxic,              \* main.py local is_toxic
    toxicity_score,     \* main.py local
    result_data,        \* main.py local
    llama_styles,       \* styles handed to generate_multiple_rephrases
    max_retries,        \* max_retries of the running generation
    results,            \* generate_multiple_rephrases local
    style_idx,          \* index of the style being generated (1-based)
    attempt,            \* loop variable of _generate_single_rephrase
    calls,              \* generation-oracle calls made for the current style
    slept,              \* time units slept for the current style
    single_returns,     \* values returned by _generate_single_rephrase so far
    reply_kinds,        \* what each attempt for the current style ran into
    verify_idx,         \* index of the rephrase being scored
    exc,                \* exception caught at the request boundary
    log,                \* rows of the primary log sink, after the header
    error_log,          \* entries of the secondary error sink
    log_raised,         \* a log_analysis call raised to its caller
    log_appends,        \* log_analysis calls made by the operation
    tox_calls,          \* toxicity-oracle calls made
    tox_failures,       \* toxicity-oracle calls that failed
    rescore_failures,   \* failed toxicity-oracle calls among those for rewrites
    gen_calls,          \* generation-oracle calls made
    status,             \* HTTP status of the reply (0: none)
    response,           \* body returned, or detail of the HTTP error
    handlers,           \* the request coroutines of one server process
    event_loop,         \* the coroutine the event loop is running (0: none)
    sink,               \* cells of the primary sink as written by the server
    clean_runs,         \* a text and the results of cleaning it again and again
    export_sink,        \* rows of the file an export wrote, None before it exists
    last_export         \* the export_filtered_logs call that returned last

svcVars == <<perspective_api, llama_rephraser, toxicity_logger, op, request>>
mainVars == <<text, toxic, toxicity_score, result_data, verify_idx, exc>>
genVars == <<llama_styles, max_retries, results, style_idx, attempt, calls, slept,
             single_returns, reply_kinds, gen_calls>>
logVars == <<log, error_log, log_raised, log_appends>>
toxVars == <<tox_calls, tox_failures, rescore_failures>>
outVars == <<status, response>>
serverVars == <<handlers, event_loop, sink>>
exportVars == <<export_sink, last_export>>
otherVars == <<serverVars, clean_runs, exportVars>>
vars == <<svcVars, pc, mainVars, genVars, logVars, toxVars, outVars, otherVars>>

Operations ==
    [op : {"analyze"}, request : AnalyzeRequests]
    \cup [op : {"rephrase_only"}, request : RephraseOnlyRequests]
    \cup [op : {"rephrase_comment"}, request : RephraseCommentRequests]
    \cup [op : {"log_analysis"}, request : LogRequests]

\* no request has been processed: locals unset, sinks holding only the header
Fresh ==
    /\ text = <<>>
    /\ toxic = FALSE
    /\ toxicity_score = 0
    /\ result_data = <<>>
    /\ llama_styles = <<>>
    /\ max_retries = DefaultMaxRetries
    /\ results = <<>>
    /\ style_idx = 1
    /\ attempt = 0
    /\ calls = 0
    /\ slept = 0
    /\ single_returns = <<>>
    /\ reply_kinds = <<>>
    /\ verify_idx = 1
    /\ exc = None
    /\ log = <<>>
    /\ error_log = <<>>
    /\ log_raised = FALSE
    /\ log_appends = 0
    /\ tox_calls = 0
    /\ tox_failures = 0
    /\ rescore_failures = 0
    /\ gen_calls = 0
    /\ status = 0
    /\ response = <<>>

\* the state after module import: services built or not, the sink holding
\* only its header, one operation about to start
Init ==
    /\ perspective_api \in BOOLEAN
    /\ llama_rephraser \in BOOLEAN
    /\ toxicity_logger \in BOOLEAN
    /\ \E o \in Operations :
          /\ op = o.op
          /\ request = o.request
          /\ o.op = "rephrase_comment" => llama_rephraser
          /\ o.op = "log_analysis" => toxicity_logger
    /\ pc = "start"
    /\ Fresh
    /\ handlers = <<>>
    /\ event_loop = 0
    /\ sink = <<>>
    /\ clean_runs = <<>>
    /\ export_sink = None
    /\ last_export = <<>>


(***************************************************************************)
(* main.py: /api/analyze-comment                                           *)
(***************************************************************************)
\* raise HTTPException(status_code, detail)
Reject(code, detail) ==
    /\ status' = code
    /\ response' = [detail |-> detail]
    /\ pc' = "done"

\* faulty variant: the text is validated without trimming
StrippedTextRaw(raw) == raw

\* line 146
StrippedText(raw) == Strip(raw)

\* faulty variant: the record tells the logger that rephrasing was requested
InitialResultDataWithRequest(t) ==
    [original_text |-> t, toxicity |-> <<>>, rephrases |-> <<>>, success |-> TRUE,
     error_message |-> None, fallback_used |-> FALSE, endpoint |-> "analyze-comment",
     include_rephrase |-> TRUE]

\* lines 154-163
InitialResultData(t) ==
    [original_text |-> t, toxicity |-> <<>>, rephrases |-> <<>>, success |-> TRUE,
     error_message |-> None, fallback_used |-> FALSE, endpoint |-> "analyze-comment"]

\* lines 138-163: availability and validation checks, then the result structure
Validate ==
    /\ op = "analyze" /\ pc = "start"
    /\ IF ~perspective_api
       THEN Reject(503, "Perspective API not available") /\ UNCHANGED <<text, result_data>>
       ELSE IF IsEmptyText(StrippedText(request.text))
       THEN Reject(400, "Text cannot be empty") /\ UNCHANGED <<text, result_data>>
       ELSE IF IsTooLong(StrippedText(request.text))
       THEN Reject(400, "Text too long") /\ UNCHANGED <<text, result_data>>
       ELSE /\ text' = StrippedText(request.text)
            /\ result_data' = InitialResultData(StrippedText(request.text))
            /\ pc' = "is_toxic"
            /\ UNCHANGED outVars
    /\ UNCHANGED <<svcVars, otherVars, toxic, toxicity_score, verify_idx, exc, genVars, logVars, toxVars>>

\* line 169: the first scoring call for the original text
ScoreOriginal ==
    /\ op = "analyze" /\ pc = "is_toxic"
    /\ \E reply \in ToxicityReplies :
          LET r == is_toxic(reply, request.toxicity_threshold) IN
          /\ tox_calls' = tox_calls + 1
          /\ tox_failures' = tox_failures + (IF reply.raised THEN 1 ELSE 0)
          /\ UNCHANGED rescore_failures
          /\ IF r.raised
             THEN /\ exc' = Some("TypeError")
                  /\ pc' = "fault"
                  /\ UNCHANGED <<toxic, toxicity_score>>
             ELSE /\ toxic' = r.is_toxic
                  /\ toxicity_score' = r.toxicity_score
                  /\ pc' = "detail"
                  /\ UNCHANGED exc
    /\ UNCHANGED <<svcVars, otherVars, text, result_data, verify_idx, genVars, logVars, outVars>>

\* lines 173-175
Confidence(detailed_analysis) ==
    IF detailed_analysis.success
    THEN detailed_analysis.results.toxicity.confidence
    ELSE Some(0)

\* lines 172-182: the second call for the original text, for the confidence
DetailedAnalysis ==
    /\ op = "analyze" /\ pc = "detail"
    /\ \E reply \in ToxicityReplies :
          /\ tox_calls' = tox_calls + 1
          /\ tox_failures' = tox_failures + (IF reply.raised THEN 1 ELSE 0)
          /\ UNCHANGED rescore_failures
          /\ result_data' =
                [result_data EXCEPT !.toxicity =
                    [score |-> toxicity_score, is_toxic |-> toxic,
                     confidence |-> Confidence(analyze_comment(reply)),
                     threshold_used |-> request.toxicity_threshold]]
    /\ pc' = "step2"
    /\ UNCHANGED <<svcVars, otherVars, text, toxic, toxicity_score, verify_idx, exc, genVars, logVars,
                   outVars>>

\* entry of generate_multiple_rephrases
StartGenerate(toxic_comment, score, styles, retries) ==
    /\ llama_styles' = styles
    /\ max_retries' = retries
    /\ results' = InitResults(toxic_comment, score, "llama2")
    /\ style_idx' = 1
    /\ attempt' = 0
    /\ calls' = 0
    /\ slept' = 0
    /\ reply_kinds' = <<>>
    /\ UNCHANGED <<single_returns, gen_calls>>

\* lines 185-200 and 238-239: the decision to rephrase; slicing request.styles
\* raises TypeError when styles is None
StartRephrasing ==
    /\ op = "analyze" /\ pc = "step2"
    /\ IF toxic /\ request.include_rephrase /\ llama_rephraser
       THEN IF IsNone(request.styles)
            THEN /\ exc' = Some("TypeError")
                 /\ pc' = "fault"
                 /\ UNCHANGED <<result_data, genVars>>
            ELSE /\ StartGenerate(text, Some(toxicity_score),
                        ConvertStyles(PySliceTo(Get(request.styles), request.max_rephrases)),
                        DefaultMaxRetries)
                 /\ pc' = "generate"
                 /\ UNCHANGED <<result_data, exc>>
       ELSE IF toxic /\ request.include_rephrase /\ ~llama_rephraser
       THEN /\ result_data' =
                 [result_data EXCEPT !.error_message =
                     Some("Rephrasing requested but LLaMA service not available")]
            /\ pc' = "log"
            /\ UNCHANGED <<exc, genVars>>
       ELSE /\ pc' = "log"
            /\ UNCHANGED <<result_data, exc, genVars>>
    /\ UNCHANGED <<svcVars, otherVars, text, toxic, toxicity_score, verify_idx, logVars, toxVars, outVars>>

(***************************************************************************)
(* llama.py: generate_multiple_rephrases and _generate_single_rephrase     *)
(***************************************************************************)
\* faulty variant: a failed style ends the loop
AfterStyleBreak(idx, failed, n) == IF failed THEN n + 1 ELSE idx + 1

\* line 67: the for loop goes on with the next style whether or not the
\* current one failed
AfterStyle(idx, failed, n) == idx + 1

\* lines 105-144 and 73-89: one requests.post and what follows from its reply
Post ==
    /\ pc = "generate"
    /\ style_idx <= Len(llama_styles)
    /\ LoopContinues(attempt, max_retries)
    /\ \E reply \in GenerationReplies :
          LET o == AttemptOutcome(reply, attempt, max_retries)
              style == llama_styles[style_idx]
          IN
          /\ calls' = IF o.kind = "retry" THEN calls + 1 ELSE 0
          /\ gen_calls' = gen_calls + 1
          /\ CASE o.kind = "success" ->
                    /\ results' = [results EXCEPT !.rephrases =
                          Append(@, [style |-> style, text |-> o.text,
                                     attempts |-> AttemptNumber(attempt)])]
                    /\ single_returns' = Append(single_returns,
                          [style |-> style, success |-> TRUE, calls |-> calls + 1,
                           max_retries |-> max_retries])
                    /\ style_idx' = AfterStyle(style_idx, FALSE, Len(llama_styles))
                    /\ attempt' = 0 /\ slept' = 0 /\ reply_kinds' = <<>>
               [] o.kind = "error" ->
                    /\ results' = [results EXCEPT !.errors =
                          Append(@, [style |-> style,
                                     error |-> ErrRequestFailed(max_retries, "RequestException")])]
                    /\ single_returns' = Append(single_returns,
                          [style |-> style, success |-> FALSE, calls |-> calls + 1,
                           max_retries |-> max_retries])
                    /\ style_idx' = AfterStyle(style_idx, TRUE, Len(llama_styles))
                    /\ attempt' = 0 /\ slept' = 0 /\ reply_kinds' = <<>>
               [] o.kind = "raise" ->
                    /\ results' = [results EXCEPT !.errors =
                          Append(@, [style |-> style,
                                     error |-> ErrUnexpected(max_retries, "AttributeError")])]
                    /\ style_idx' = AfterStyle(style_idx, TRUE, Len(llama_styles))
                    /\ attempt' = 0 /\ slept' = 0 /\ reply_kinds' = <<>>
                    /\ UNCHANGED single_returns
               [] OTHER ->
                    /\ attempt' = attempt + 1
                    /\ slept' = slept + o.sleep
                    /\ reply_kinds' = Append(reply_kinds, FailureCause(reply))
                    /\ UNCHANGED <<results, single_returns, style_idx>>
    /\ UNCHANGED <<svcVars, otherVars, pc, mainVars, llama_styles, max_retries, logVars, toxVars, outVars>>

\* lines 146-149 and 80-84: the loop ended without a usable text
RetriesExhausted ==
    /\ pc = "generate"
    /\ style_idx <= Len(llama_styles)
    /\ ~LoopContinues(attempt, max_retries)
    /\ results' = [results EXCEPT !.errors =
          Append(@, [style |-> llama_styles[style_idx],
                     error |-> ErrFailedToGenerate(max_retries, llama_styles[style_idx])])]
    /\ single_returns' = Append(single_returns,
          [style |-> llama_styles[style_idx], success |-> FALSE, calls |-> calls,
           max_retries |-> max_retries])
    /\ style_idx' = AfterStyle(style_idx, TRUE, Len(llama_styles))
    /\ attempt' = 0 /\ calls' = 0 /\ slept' = 0 /\ reply_kinds' = <<>>
    /\ UNCHANGED <<svcVars, otherVars, pc, mainVars, llama_styles, max_retries, gen_calls, logVars,
                   toxVars, outVars>>

\* lines 91-96: every style was processed
FinishGenerate ==
    /\ pc = "generate"
    /\ style_idx > Len(llama_styles)
    /\ results' = Finalize(results)
    /\ pc' = "generated"
    /\ UNCHANGED <<svcVars, otherVars, mainVars, llama_styles, max_retries, style_idx, attempt, calls,
                   slept, single_returns, reply_kinds, gen_calls, logVars, toxVars, outVars>>

(***************************************************************************)
(* main.py: /api/analyze-comment, after the generation                     *)
(***************************************************************************)
\* lines 202-236: rewrites are scored next, or the fallback entry is used
HandleRephraseResult ==
    /\ op = "analyze" /\ pc = "generated"
    /\ IF results.success /\ results.rephrases # <<>>
       THEN /\ pc' = "verify"
            /\ verify_idx' = 1
            /\ UNCHANGED result_data
       ELSE /\ pc' = "log"
            /\ UNCHANGED verify_idx
            /\ IF ~IsNone(results.fallback_message) /\ Get(results.fallback_message) # <<>>
               THEN result_data' =
                        [result_data EXCEPT
                            !.fallback_used = TRUE,
                            !.rephrases = Append(@,
                                FallbackEntry(Get(results.fallback_message), toxicity_score)),
                            !.error_message =
                                Some("Rephrasing failed, using fallback response")]
               ELSE result_data' =
                        [result_data EXCEPT !.error_message = Some("Rephrasing failed")]
    /\ UNCHANGED <<svcVars, otherVars, text, toxic, toxicity_score, exc, genVars, logVars, toxVars,
                   outVars>>

\* faulty variant: the scoring loop ends after its first rewrite
MoreToScoreNever(idx, rephrases) == FALSE

\* line 204: the for loop goes over every rewrite of the generation result
MoreToScore(idx, rephrases) == idx < Len(rephrases)

\* lines 204-219: one rewrite is scored with the default threshold; what
\* is_toxic raises would reach the handler of line 267
VerifyRephrase ==
    /\ op = "analyze" /\ pc = "verify"
    /\ verify_idx <= Len(results.rephrases)
    /\ \E reply \in ToxicityReplies :
          LET r == is_toxic(reply, Some(DefaultThreshold)) IN
          /\ tox_calls' = tox_calls + 1
          /\ tox_failures' = tox_failures + (IF reply.raised THEN 1 ELSE 0)
          /\ rescore_failures' = rescore_failures + (IF reply.raised THEN 1 ELSE 0)
          /\ IF r.raised
             THEN /\ exc' = Some("TypeError")
                  /\ pc' = "fault"
                  /\ UNCHANGED <<result_data, verify_idx>>
             ELSE /\ result_data' =
                        [result_data EXCEPT !.rephrases = Append(@,
                            ScoredRephrase(results.rephrases[verify_idx], toxicity_score,
                                           r.toxicity_score))]
                  /\ verify_idx' = verify_idx + 1
                  /\ pc' = IF MoreToScore(verify_idx, results.rephrases)
                           THEN "verify" ELSE "log"
                  /\ UNCHANGED exc
    /\ UNCHANGED <<svcVars, otherVars, text, toxic, toxicity_score, genVars, logVars, outVars>>

\* line 243: LlamaRephrase has no _working_model attribute
ModelUsed == IF llama_rephraser THEN "unknown" ELSE "none"

\* faulty variant: a response that used the fallback reports a failure
AdvancedAnalysisResultFailing(rd) ==
    [original_text |-> rd.original_text, toxicity |-> rd.toxicity,
     rephrases |-> rd.rephrases, success |-> (rd.success /\ ~rd.fallback_used),
     error_message |-> rd.error_message, fallback_used |-> rd.fallback_used]

\* lines 253-261
AdvancedAnalysisResult(rd) ==
    [original_text |-> rd.original_text, toxicity |-> rd.toxicity,
     rephrases |-> rd.rephrases, success |-> rd.success,
     error_message |-> rd.error_message, fallback_used |-> rd.fallback_used]

\* a log_analysis call of a handler; the handler's own try/except absorbs
\* whatever the call raises
CallLogger(analysis_data) ==
    IF toxicity_logger
    THEN \E sink_ok \in BOOLEAN, error_sink_ok \in BOOLEAN :
            LET l == log_analysis(analysis_data, TRUE, sink_ok, error_sink_ok) IN
            /\ log' = log \o l.rows
            /\ error_log' = error_log \o l.entries
            /\ log_raised' = (log_raised \/ l.raised)
            /\ log_appends' = log_appends + 1
    ELSE UNCHANGED logVars

\* lines 241-263: the record is logged, then the response model is built and
\* returned. Building it (lines 253-261) is a validating constructor call
\* inside the try block: when it raises, the handler of line 267 takes over
\* after the record of line 248 has been appended.
LogAndRespond ==
    /\ op = "analyze" /\ pc = "log"
    /\ CallLogger([k \in DOMAIN result_data \cup {"model_used"} |->
                      IF k = "model_used" THEN ModelUsed ELSE result_data[k]])
    /\ \E constructed \in BOOLEAN :
          IF constructed
          THEN /\ status' = 200
               /\ response' = AdvancedAnalysisResult(result_data)
               /\ pc' = "done"
               /\ UNCHANGED exc
          ELSE /\ exc' = Some("ValidationError")
               /\ pc' = "fault"
               /\ UNCHANGED outVars
    /\ UNCHANGED <<svcVars, otherVars, text, toxic, toxicity_score, result_data, verify_idx, genVars,
                   toxVars>>

\* lines 271-279
ErrorResult(t, e) ==
    [original_text |-> t,
     toxicity |-> [score |-> 0, is_toxic |-> FALSE, error |-> e],
     rephrases |-> <<>>, success |-> FALSE,
     error_message |-> Some("Analysis failed: " \o e),
     endpoint |-> "analyze-comment"]

\* faulty variant: the fault is reported without being logged
LogFaultSkipped(e) == UNCHANGED logVars

\* lines 270-285: the failed record is logged, best effort
LogFault(e) == CallLogger(ErrorResult(text, e))

\* lines 267-290: the request boundary
HandleFault ==
    /\ op = "analyze" /\ pc = "fault"
    /\ LogFault(Get(exc))
    /\ Reject(500, "Analysis failed: " \o Get(exc))
    /\ UNCHANGED <<svcVars, otherVars, mainVars, genVars, toxVars>>

(***************************************************************************)
(* main.py: /api/rephrase                                                  *)
(***************************************************************************)
\* lines 297-320
StartRephraseOnly ==
    /\ op = "rephrase_only" /\ pc = "start"
    /\ IF IsEmptyText(Strip(request.text))
       THEN Reject(400, "Text cannot be empty") /\ UNCHANGED <<text, genVars>>
       ELSE IF ~llama_rephraser
       THEN Reject(503, "LLaMA rephrasing service not available")
            /\ UNCHANGED <<text, genVars>>
       ELSE /\ text' = Strip(request.text)
            /\ StartGenerate(Strip(request.text), None,
                  ConvertStyleNames(IF IsNone(request.styles) THEN DefaultStyleNames
                                    ELSE Get(request.styles)),
                  DefaultMaxRetries)
            /\ pc' = "generate"
            /\ UNCHANGED outVars
    /\ UNCHANGED <<svcVars, otherVars, toxic, toxicity_score, result_data, verify_idx, exc, logVars,
                   toxVars>>

\* lines 322-336
RespondRephraseOnly ==
    /\ op = "rephrase_only" /\ pc = "generated"
    /\ status' = 200
    /\ response' =
          IF results.success
          THEN [original_text |-> text, rephrases |-> results.rephrases, success |-> TRUE,
                model_used |-> results.model_used]
          ELSE [original_text |-> text, rephrases |-> <<>>, success |-> FALSE,
                error |-> results.errors,
                fallback_message |-> Get(results.fallback_message)]
    /\ pc' = "done"
    /\ UNCHANGED <<svcVars, otherVars, mainVars, genVars, logVars, toxVars>>

(***************************************************************************)
(* llama.py: rephrase_comment                                              *)
(***************************************************************************)
\* lines 253-256
StartRephraseComment ==
    /\ op = "rephrase_comment" /\ pc = "start"
    /\ text' = request.text
    /\ StartGenerate(request.text, request.toxicity_score, <<NEUTRAL>>, request.max_retries)
    /\ pc' = "generate"
    /\ UNCHANGED <<svcVars, otherVars, toxic, toxicity_score, result_data, verify_idx, exc, logVars,
                   toxVars, outVars>>

\* lines 258-271
ReturnRephraseComment ==
    /\ op = "rephrase_comment" /\ pc = "generated"
    /\ response' =
          IF results.success /\ results.rephrases # <<>>
          THEN [success |-> TRUE, original_text |-> text,
                rephrased_text |-> results.rephrases[1].text,
                toxicity_score |-> request.toxicity_score, model_used |-> results.model_used]
          ELSE [success |-> FALSE,
                error |-> IF results.errors # <<>> THEN Some(results.errors[1].error)
                          ELSE None,
                original_text |-> text]
    /\ pc' = "done"
    /\ UNCHANGED <<svcVars, otherVars, mainVars, genVars, logVars, toxVars, status>>

(***************************************************************************)
(* logging_system.py: log_analysis called directly                         *)
(***************************************************************************)
DirectLog ==
    /\ op = "log_analysis" /\ pc = "start"
    /\ \E sink_ok \in BOOLEAN, error_sink_ok \in BOOLEAN :
          LET l == log_analysis(request.analysis_data, request.is_dict, sink_ok,
                                error_sink_ok)
          IN
          /\ log' = log \o l.rows
          /\ error_log' = error_log \o l.entries
          /\ log_raised' = (log_raised \/ l.raised)
          /\ log_appends' = log_appends + 1
    /\ pc' = "done"
    /\ UNCHANGED <<svcVars, otherVars, mainVars, genVars, toxVars, outVars>>

Next ==
    \/ Validate
    \/ ScoreOriginal
    \/ DetailedAnalysis
    \/ StartRephrasing
    \/ Post
    \/ RetriesExhausted
    \/ FinishGenerate
    \/ HandleRephraseResult
    \/ VerifyRephrase
    \/ LogAndRespond
    \/ HandleFault
    \/ StartRephraseOnly
    \/ RespondRephraseOnly
    \/ StartRephraseComment
    \/ ReturnRephraseComment
    \/ DirectLog

Spec == Init /\ [][Next]_vars

(***************************************************************************)
(* main.py served by uvicorn (line 403): several analyze-comment requests  *)
(* in one process, all appending to the sink of the one ToxicityLogger     *)
(***************************************************************************)
Requests == 1..NumRequests

\* what csv.writer.writerow hands to file.write in one call: the fields of
\* the row and the line terminator
CsvLine(req, kind) == <<[req |-> req, cell |-> kind], [req |-> req, cell |-> "eol"]>>

\* faulty variant: handlers run in threads and are preempted anywhere
ScheduledPreemptively(i) == TRUE

\* main.py 133-134: analyze_comment_advanced is a coroutine that never
\* awaits, so the event loop runs it from its first line to its return before
\* it starts the coroutine of another request
Scheduled(i) == event_loop \in {0, i}

InitServer ==
    /\ perspective_api = TRUE
    /\ llama_rephraser \in BOOLEAN
    /\ toxicity_logger = TRUE
    /\ op = "serve"
    /\ request = <<>>
    /\ pc = "serve"
    /\ Fresh
    /\ handlers = [i \in Requests |-> [pc |-> "pending", kind |-> "none", buffer |-> <<>>,
                                       appends |-> 0]]
    /\ event_loop = 0
    /\ sink = <<>>
    /\ clean_runs = <<>>
    /\ export_sink = None
    /\ last_export = <<>>

ServerStep(i, from) ==
    /\ op = "serve"
    /\ Scheduled(i)
    /\ handlers[i].pc = from
    /\ UNCHANGED <<svcVars, pc, mainVars, genVars, logVars, toxVars, outVars, clean_runs,
                   exportVars>>

\* main.py 138-243 and 267-279: the request is validated and analysed; what is
\* to be logged is result_data, or error_result after a fault
Analyse(i) ==
    /\ ServerStep(i, "pending")
    /\ \E kind \in {"result", "failed"} :
          handlers' = [handlers EXCEPT ![i].pc = "log", ![i].kind = kind]
    /\ event_loop' = i
    /\ UNCHANGED sink

\* logging_system.py 131: open(self.log_file_path, 'a')
OpenSink(i) ==
    /\ ServerStep(i, "log")
    /\ handlers' = [handlers EXCEPT ![i].pc = "opened", ![i].buffer = <<>>]
    /\ UNCHANGED <<event_loop, sink>>

\* logging_system.py 132-133: the row goes to the buffer of the file object
WriteRow(i) ==
    /\ ServerStep(i, "opened")
    /\ handlers' = [handlers EXCEPT ![i].pc = "written",
                                    ![i].buffer = @ \o CsvLine(i, handlers[i].kind)]
    /\ UNCHANGED <<event_loop, sink>>

\* logging_system.py 131-133: leaving the with block closes the file, which
\* writes the buffer to the end of the sink in one write
CloseSink(i) ==
    /\ ServerStep(i, "written")
    /\ sink' = sink \o handlers[i].buffer
    /\ handlers' = [handlers EXCEPT ![i].pc = "logged", ![i].buffer = <<>>,
                                    ![i].appends = @ + 1]
    /\ UNCHANGED event_loop

\* main.py 253-261 and 267: building the response raises after the append
FaultAfterAppend(i) ==
    /\ ServerStep(i, "logged")
    /\ handlers[i].kind = "result"
    /\ handlers' = [handlers EXCEPT ![i].pc = "log", ![i].kind = "failed"]
    /\ UNCHANGED <<event_loop, sink>>

\* main.py 263 and 287-290: the coroutine ends, the event loop is free again
Return(i) ==
    /\ ServerStep(i, "logged")
    /\ handlers' = [handlers EXCEPT ![i].pc = "done"]
    /\ event_loop' = 0
    /\ UNCHANGED sink

NextServer ==
    \E i \in Requests :
        \/ Analyse(i)
        \/ OpenSink(i)
        \/ WriteRow(i)
        \/ CloseSink(i)
        \/ FaultAfterAppend(i)
        \/ Return(i)

SpecServer == InitServer /\ [][NextServer]_vars

(***************************************************************************)
(* llama.py: _clean_response applied to a text, then to its own result     *)
(***************************************************************************)
\* pieces the texts handed to _clean_response are made of: listed prefixes,
\* a quote, a blank, a word, a quoted word, an end mark
CleanTokens ==
    { <<"r", "e", "p", "h", "r", "a", "s", "e", ":">>,
      <<"A", "l", "t", "e", "r", "n", "a", "t", "i", "v", "e", ":", " ">>,
      <<"\"">>,
      <<" ">>,
      <<"h", "i">>,
      <<"\"", "h", "i", "\"">>,
      <<"!">> }

RECURSIVE Concat(_)
Concat(pieces) == IF pieces = <<>> THEN <<>> ELSE Head(pieces) \o Concat(Tail(pieces))

\* the texts: every sequence of at most MaxTokens pieces
CleanInputs ==
    {Concat(pieces) : pieces \in UNION {[1..n -> CleanTokens] : n \in 0..MaxTokens}}

InitClean ==
    /\ perspective_api = TRUE
    /\ llama_rephraser = TRUE
    /\ toxicity_logger = TRUE
    /\ op = "_clean_response"
    /\ request = <<>>
    /\ pc = "clean"
    /\ Fresh
    /\ handlers = <<>>
    /\ event_loop = 0
    /\ sink = <<>>
    /\ \E response_text \in CleanInputs : clean_runs = <<response_text>>
    /\ export_sink = None
    /\ last_export = <<>>

\* lines 204-231: the last text is cleaned and the result kept
CleanAgain ==
    /\ op = "_clean_response"
    /\ Len(clean_runs) <= MaxCleanPasses
    /\ clean_runs' = Append(clean_runs, _clean_response(clean_runs[Len(clean_runs)]))
    /\ UNCHANGED <<svcVars, pc, mainVars, genVars, logVars, toxVars, outVars, serverVars,
                   exportVars>>

NextClean == CleanAgain

SpecClean == InitClean /\ [][NextClean]_vars

(***************************************************************************)
(* logging_system.py: export_filtered_logs on a log that log_analysis      *)
(* fills                                                                   *)
(***************************************************************************)
\* line 15: the path of the primary sink, as main.py 45 passes it
log_file_path == "logs/toxicity_analysis.csv"

\* the output paths handed to the export: another file, or the log itself
OutputPaths == {"logs/export.csv", log_file_path}

\* the filters argument; None and {} are both <<>>, 'if filters' (line 258)
\* takes them alike
ExportFilters ==
    {<<>>, [is_toxic |-> TRUE], [min_score |-> 80], [is_toxic |-> FALSE, min_score |-> 80]}

\* the cell csv.writer writes for a bool: str(value)
CsvBool(b) == IF b THEN <<"T", "r", "u", "e">> ELSE <<"F", "a", "l", "s", "e">>

\* lines 258-275: the filters applied to one row read back from the file
ShouldInclude(row, filters) ==
    IF DOMAIN filters = {} THEN TRUE
    ELSE LET row_is_toxic == Lower(CsvBool(row.is_toxic)) = <<"t", "r", "u", "e">>
             score == row.original_toxicity_score
         IN  /\ "is_toxic" \in DOMAIN filters => filters.is_toxic = row_is_toxic
             /\ "min_score" \in DOMAIN filters => ~(score < filters.min_score)

\* lines 257-277: the rows the reader yields, filtered, in file order
FilteredRows(rows, filters) == SelectSeq(rows, LAMBDA row : ShouldInclude(row, filters))

InitExport ==
    /\ perspective_api = TRUE
    /\ llama_rephraser = TRUE
    /\ toxicity_logger = TRUE
    /\ op = "export_filtered_logs"
    /\ request = <<>>
    /\ pc = "idle"
    /\ Fresh
    /\ handlers = <<>>
    /\ event_loop = 0
    /\ sink = <<>>
    /\ clean_runs = <<>>
    /\ export_sink = None
    /\ last_export = <<>>

\* lines 54-133: log_analysis appends the row of one record to the log
AppendRecord ==
    /\ op = "export_filtered_logs"
    /\ log_appends < MaxRows
    /\ \E r \in LogRequests :
          /\ r.is_dict
          /\ log' = log \o log_analysis(r.analysis_data, TRUE, TRUE, TRUE).rows
    /\ log_appends' = log_appends + 1
    /\ pc' = "idle"
    /\ UNCHANGED <<svcVars, mainVars, genVars, error_log, log_raised, toxVars, outVars,
                   serverVars, clean_runs, exportVars>>

\* lines 233-283. The log is opened for reading and its header read (248-250),
\* which fills the reader's buffer with the first block of the file: the
\* header and the first rows, all of them when the file is small. Then the
\* output is opened with mode 'w' (252), which empties the file of that name,
\* and the filtered rows are written to it. When the output path names the
\* log, the reader is left with the rows of its buffer.
ExportFilteredLogs ==
    /\ op = "export_filtered_logs"
    /\ \E output_path \in OutputPaths, filters \in ExportFilters, output_ok \in BOOLEAN :
          /\ IF ~output_ok
             THEN UNCHANGED <<log, export_sink>>
             ELSE IF output_path = log_file_path
             THEN /\ \E buffered \in 0..Len(log) :
                        log' = FilteredRows(SubSeq(log, 1, buffered), filters)
                  /\ UNCHANGED export_sink
             ELSE /\ export_sink' = Some(FilteredRows(log, filters))
                  /\ UNCHANGED log
          /\ last_export' = [output_path |-> output_path, filters |-> filters,
                             before |-> log, returned |-> output_ok]
    /\ pc' = "exported"
    /\ UNCHANGED <<svcVars, mainVars, genVars, error_log, log_raised, log_appends, toxVars,
                   outVars, serverVars, clean_runs>>

NextExport ==
    \/ AppendRecord
    \/ ExportFilteredLogs

SpecExport == InitExport /\ [][NextExport]_vars

(***************************************************************************)
(* Properties                                                              *)
(***************************************************************************)
HasResults == DOMAIN results # {}
GenerationReturned == HasResults /\ pc \notin {"start", "generate"}
Occurrences(entries, style) ==
    Cardinality({i \in 1..Len(entries) : entries[i].style = style})
Requested(style) ==
    Cardinality({i \in 1..Len(llama_styles) : llama_styles[i] = style})
AnalyzeDone == op = "analyze" /\ pc = "done"

\* C1: for every max_retries = N >= 0 and every sequence of oracle replies,
\* _generate_single_rephrase makes at most N generation calls for one style,
\* and when it returns a failure it has made exactly N calls.
RetryBudget ==
    /\ calls <= max_retries
    /\ \A i \in 1..Len(single_returns) :
          /\ single_returns[i].calls <= single_returns[i].max_retries
          /\ ~single_returns[i].success =>
                single_returns[i].calls = single_returns[i].max_retries

RetryBudgetWitness ==
    \E i \in 1..Len(single_returns) :
        /\ ~single_returns[i].success
        /\ single_returns[i].max_retries = LegacyMaxRetries
        /\ single_returns[i].calls = LegacyMaxRetries

\* C2 as stated: every requested style yields exactly one outcome, and the
\* result never has zero rephrases and zero errors at the same time.
EveryStyleOneOutcomeNeverEmpty ==
    GenerationReturned =>
        /\ Len(results.rephrases) + Len(results.errors) = Len(llama_styles)
        /\ ~(results.rephrases = <<>> /\ results.errors = <<>>)

\* C2 amended: every requested style is processed, also after earlier styles
\* failed, and yields exactly one outcome, a rephrase or an error; the result
\* has zero rephrases and zero errors only when no style was requested.
EveryStyleOneOutcome ==
    /\ pc = "generate" => Len(results.rephrases) + Len(results.errors) = style_idx - 1
    /\ GenerationReturned =>
          /\ Len(results.rephrases) + Len(results.errors) = Len(llama_styles)
          /\ \A style \in RephrasingStyle :
                Occurrences(results.rephrases, style) + Occurrences(results.errors, style)
                    = Requested(style)
          /\ (results.rephrases = <<>> /\ results.errors = <<>>) => llama_styles = <<>>

EveryStyleOneOutcomeWitness ==
    /\ GenerationReturned
    /\ Len(llama_styles) = 3
    /\ Len(results.errors) = 2
    /\ results.errors[1].style = llama_styles[1]
    /\ Len(results.rephrases) = 1
    /\ results.rephrases[1].style = llama_styles[3]

\* C3: the result of generate_multiple_rephrases has success = True exactly
\* when some style produced a rewrite, and success = False with a
\* fallback_message exactly when none did.
SuccessIffRewrite ==
    /\ GenerationReturned =>
          /\ results.success <=> results.rephrases # <<>>
          /\ (~results.success /\ ~IsNone(results.fallback_message))
                <=> results.rephrases = <<>>
          /\ results.success => IsNone(results.fallback_message)
    /\ (pc = "done" /\ op \in {"rephrase_comment", "rephrase_only"} /\ HasResults) =>
          (response.success <=> results.rephrases # <<>>)

SuccessIffRewriteWitness ==
    /\ GenerationReturned
    /\ results.success
    /\ results.errors # <<>>

\* C4: when every requested style failed in an analyze-comment request, the
\* response has fallback_used = true and exactly one rephrase entry, of style
\* 'fallback' and toxicity_score 0.1, however many styles were requested.
FallbackOnTotalFailure ==
    (AnalyzeDone /\ status = 200 /\ HasResults /\ results.rephrases = <<>>) =>
        /\ response.fallback_used
        /\ Len(response.rephrases) = 1
        /\ response.rephrases[1].style = "fallback"
        /\ response.rephrases[1].toxicity_score = FallbackScore

FallbackOnTotalFailureWitness ==
    /\ AnalyzeDone /\ status = 200 /\ HasResults
    /\ Len(llama_styles) = 3
    /\ Len(results.errors) = 3
    /\ response.fallback_used

\* C5: the fallback message is pool element number len(text) mod 5: any text
\* of the same length modulo 5 gets the message this request got, whatever
\* its content, the score, the threshold, the styles and the oracle replies.
FallbackByLengthOnly ==
    (GenerationReturned /\ ~results.success) =>
        /\ Get(results.fallback_message)
              = fallback_messages[(Len(results.original_text) % 5) + 1]
        /\ \A t \in Texts :
              Len(t) % 5 = Len(results.original_text) % 5 =>
                  _get_fallback_message(t) = Get(results.fallback_message)

FallbackByLengthOnlyWitness ==
    /\ GenerationReturned /\ ~results.success
    /\ results.original_text = <<"G", "o", " ", "a", "w", "a", "y", "!", "!">>
    /\ \E t \in Texts : t # results.original_text /\ Len(t) = 4

\* C6: for every entry of the rephrases list of an analyze-comment response,
\* rewrite or fallback, improvement is the original score minus the entry's
\* toxicity_score.
ImprovementExact ==
    (AnalyzeDone /\ status = 200) =>
        \A i \in 1..Len(response.rephrases) :
            response.rephrases[i].improvement
                = response.toxicity.score - response.rephrases[i].toxicity_score

ImprovementExactWitness ==
    /\ AnalyzeDone /\ status = 200
    /\ Len(response.rephrases) = 2
    /\ response.rephrases[1].improvement = 75
    /\ response.rephrases[2].improvement = 0

\* C7 as stated: a text that is empty after trimming is rejected with 400
\* in every state of the services and no oracle is called.
EmptyTextRejected400 ==
    (AnalyzeDone /\ Strip(request.text) = <<>>) =>
        /\ status = 400
        /\ response = [detail |-> "Text cannot be empty"]
        /\ tox_calls = 0 /\ gen_calls = 0

\* C7 amended: a text that is empty after trimming is rejected and no oracle
\* is called: with 400 'Text cannot be empty' when the toxicity client is
\* available, with 503 when it is not.
EmptyTextRejected ==
    (AnalyzeDone /\ Strip(request.text) = <<>>) =>
        /\ status = IF perspective_api THEN 400 ELSE 503
        /\ perspective_api => response = [detail |-> "Text cannot be empty"]
        /\ tox_calls = 0 /\ gen_calls = 0

EmptyTextRejectedWitness ==
    /\ AnalyzeDone
    /\ request.text = <<" ", " ">>
    /\ perspective_api
    /\ status = 400

\* C8: when every scoring call fails, analyze-comment answers with an
\* unavailable status and reports no ordinary analysis result.
UnreachableOracleReported ==
    (AnalyzeDone /\ tox_calls > 0 /\ tox_failures = tox_calls) => status # 200

\* C9: log_analysis never raises to its caller, whatever the record and the
\* state of the two sinks, and a request whose analysis succeeded gets its
\* successful response whether or not the append succeeded.
LoggingAbsorbed ==
    /\ ~log_raised
    /\ (AnalyzeDone /\ DOMAIN result_data # {} /\ IsNone(exc)) =>
          /\ status = 200
          /\ response = AdvancedAnalysisResult(result_data)
          /\ response.success

LoggingAbsorbedWitness ==
    /\ AnalyzeDone /\ status = 200
    /\ toxicity_logger
    /\ log_appends = 1
    /\ log = <<>>
    /\ error_log = <<>>

\* log_analysis calls made by a request that ended in the handler of line 267:
\* one, and one more when the fault came after the append of line 248
FaultAppends == IF exc = Some("ValidationError") THEN 2 ELSE 1

\* C10: an unexpected exception raised while a validated request is processed
\* is caught at the request boundary: a failed record is handed to the log
\* and the caller gets HTTP 500 with a message.
FaultCaught ==
    (AnalyzeDone /\ ~IsNone(exc)) =>
        /\ status = 500
        /\ response = [detail |-> "Analysis failed: " \o Get(exc)]
        /\ toxicity_logger =>
              /\ log_appends = FaultAppends
              /\ Len(log) <= FaultAppends
              /\ Len(log) = FaultAppends =>
                    /\ log[Len(log)].original_text = PySliceTo(text, Some(LogTextLimit))
                    /\ log[Len(log)].original_toxicity_score = 0
                    /\ ~log[Len(log)].is_toxic
                    /\ log[Len(log)].num_rephrases_generated = 0

FaultCaughtWitness ==
    /\ AnalyzeDone /\ status = 500
    /\ exc = Some("TypeError")
    /\ tox_calls = 2
    /\ toxicity_logger
    /\ Len(log) = 1

InAppend == {i \in Requests : handlers[i].pc \in {"opened", "written"}}
RECURSIVE CompletedAppends(_)
CompletedAppends(n) == IF n = 0 THEN 0 ELSE handlers[n].appends + CompletedAppends(n - 1)
RowsOf(i) == Cardinality({k \in 1..Len(sink) : sink[k] = [req |-> i, cell |-> "eol"]})

\* C12: the appends of concurrently handled requests are serialized: at most
\* one handler is between opening and closing the sink, every append puts one
\* whole row at the end of the sink, and the sink holds exactly one whole row
\* per completed append, never a partial or an interleaved one.
AppendsSerialized ==
    /\ Cardinality(InAppend) <= 1
    /\ Len(sink) = 2 * CompletedAppends(NumRequests)
    /\ \A k \in 1..CompletedAppends(NumRequests) :
          \E i \in Requests, kind \in {"result", "failed"} :
              SubSeq(sink, 2 * k - 1, 2 * k) = CsvLine(i, kind)
    /\ \A i \in Requests : RowsOf(i) = handlers[i].appends

AppendsSerializedWitness ==
    /\ \A i \in Requests : handlers[i].pc = "done"
    /\ \E i \in Requests : handlers[i].appends = 2
    /\ \E k \in 1..(Len(sink) - 2) : sink[k].req # sink[k + 2].req

\* rewrites the generation produced for the request
RewriteCount == IF HasResults THEN Len(results.rephrases) ELSE 0

\* the score and the verdict reported for the original text are those of one
\* oracle reply
ScoreFromOneReply(reply) ==
    LET r == is_toxic(reply, request.toxicity_threshold) IN
    /\ ~r.raised
    /\ response.toxicity.score = r.toxicity_score
    /\ response.toxicity.is_toxic = r.is_toxic

\* the confidence reported for the original text is that of one oracle reply
ConfidenceFromOneReply(reply) ==
    response.toxicity.confidence = (IF reply.raised THEN Some(0) ELSE reply.confidence)

AboveThreshold ==
    IF IsNone(request.toxicity_threshold) THEN FALSE
    ELSE toxicity_score > Get(request.toxicity_threshold)

\* C14: analyze-comment calls the generation oracle only when the original
\* text is toxic, its score strictly above the request's threshold, and
\* include_rephrase is true; otherwise it makes no generation call and answers
\* with an empty rephrases list and fallback_used = false.
GenerationOnlyWhenToxic ==
    op = "analyze" =>
        /\ toxic <=> AboveThreshold
        /\ (pc = "generate" \/ gen_calls > 0) => (toxic /\ request.include_rephrase)
        /\ (AnalyzeDone /\ status = 200 /\ ~(toxic /\ request.include_rephrase)) =>
              /\ gen_calls = 0
              /\ response.rephrases = <<>>
              /\ ~response.fallback_used

GenerationOnlyWhenToxicWitness ==
    /\ AnalyzeDone /\ status = 200
    /\ llama_rephraser /\ request.include_rephrase
    /\ request.toxicity_threshold = Some(70)
    /\ response.toxicity.score = 70
    /\ gen_calls = 0
    /\ response.rephrases = <<>>

UnscoredEntries(rephrases) ==
    Cardinality({i \in 1..Len(rephrases) : rephrases[i].toxicity_score = 0})

\* C15: a failure of the toxicity oracle while a rewrite is scored does not
\* abort the request: analyze_comment and is_toxic turn the fault into a
\* result instead of raising, the rewrite is kept with toxicity_score 0, and
\* the remaining rewrites are still scored and returned.
RescoringFailureTolerated ==
    /\ \A reply \in ToxicityReplies :
          reply.raised =>
              /\ ~analyze_comment(reply).success
              /\ is_toxic(reply, Some(DefaultThreshold))
                    = [raised |-> FALSE, is_toxic |-> FALSE, toxicity_score |-> 0]
    /\ op = "analyze" =>
          /\ (rescore_failures > 0 /\ ~IsNone(exc)) => exc = Some("ValidationError")
          /\ pc = "verify" => UnscoredEntries(result_data.rephrases) = rescore_failures
          /\ (AnalyzeDone /\ status = 200 /\ RewriteCount > 0) =>
                /\ Len(response.rephrases) = RewriteCount
                /\ \A i \in 1..RewriteCount :
                      response.rephrases[i].text = results.rephrases[i].text
                /\ UnscoredEntries(response.rephrases) = rescore_failures

RescoringFailureToleratedWitness ==
    /\ AnalyzeDone /\ status = 200
    /\ RewriteCount = 2
    /\ rescore_failures = 1
    /\ response.rephrases[1].toxicity_score = 0
    /\ response.rephrases[2].toxicity_score = 10

\* C16: the styles handed to generate_multiple_rephrases are a deduplicated
\* list capped at max_rephrases: whatever the styles and max_rephrases of the
\* request, no style is generated more than once and at most max_rephrases
\* styles are processed.
StylesDeduplicatedAndCapped ==
    (op = "analyze" /\ HasResults) =>
        /\ \A style \in RephrasingStyle :
              /\ Requested(style) <= 1
              /\ GenerationReturned =>
                    Occurrences(results.rephrases, style)
                        + Occurrences(results.errors, style) <= 1
        /\ (~IsNone(request.max_rephrases) /\ Get(request.max_rephrases) >= 0) =>
              Len(llama_styles) <= Get(request.max_rephrases)

\* a step of the generation that adds an entry to the errors of the result;
\* reply_kinds holds the causes of the attempts made before the step
ReportsError ==
    /\ pc = "generate"
    /\ Len(results'.errors) = Len(results.errors) + 1

AllAttemptsWere(cause) ==
    /\ reply_kinds # <<>>
    /\ \A k \in 1..Len(reply_kinds) : reply_kinds[k] = cause

ErrorTellsCauseStep ==
    ReportsError =>
        LET e == results'.errors[Len(results'.errors)].error IN
        /\ gen_calls' = gen_calls =>
              /\ e.msg = "Failed to generate rephrase after N attempts"
              /\ reply_kinds # <<>> =>
                    reply_kinds[Len(reply_kinds)] \in {"unusable", "non200"}
              /\ ~AllAttemptsWere("exception")
        /\ gen_calls' = gen_calls + 1 =>
              /\ e.msg \in {"Request failed after N attempts", "Unexpected error"}
              /\ e.msg = "Request failed after N attempts" =>
                    /\ e.detail = "RequestException"
                    /\ Len(reply_kinds) = max_retries - 1

\* C17: when the retries of a style are used up, the error tells the cause:
\* 'Request failed' is reported when the last attempt raised a
\* RequestException, hence when every attempt failed by transport fault, and
\* 'Failed to generate' when the last attempt got a reply without usable text,
\* hence when every attempt returned an empty or too short text; the two
\* causes never get the same error.
ErrorTellsCause == [][ErrorTellsCauseStep]_vars

ErrorTellsCauseWitness ==
    /\ GenerationReturned
    /\ Len(results.errors) = 2
    /\ results.errors[1].error.msg = "Request failed after N attempts"
    /\ results.errors[2].error.msg = "Failed to generate rephrase after N attempts"
    /\ gen_calls = 2 * max_retries

\* C18: _clean_response is idempotent: cleaning a cleaned text again gives
\* the same text, for every input, also one with several listed prefixes or
\* with nested quotes.
CleanIdempotent ==
    \A k \in 2..(Len(clean_runs) - 1) : clean_runs[k + 1] = clean_runs[k]

EndMarks == {".", "!", "?"}

\* C19 as stated: for every non-empty input, _clean_response returns a text
\* whose last character is '.', '!' or '?'.
EndsWithEndMark ==
    (Len(clean_runs) >= 2 /\ clean_runs[1] # <<>>) =>
        /\ clean_runs[2] # <<>>
        /\ clean_runs[2][Len(clean_runs[2])] \in EndMarks

\* C19 amended: for every input, _clean_response returns the empty string or
\* a text whose last character is '.', '!' or '?'; an input that is not
\* empty may be cleaned to the empty string.
EndsWithEndMarkUnlessEmpty ==
    \A k \in 2..Len(clean_runs) :
        clean_runs[k] = <<>> \/ clean_runs[k][Len(clean_runs[k])] \in EndMarks

EndsWithEndMarkUnlessEmptyWitness ==
    /\ Len(clean_runs) >= 2
    /\ clean_runs[1] = <<"\"", "h", "i", "\"">>
    /\ clean_runs[2] = <<"h", "i", ".">>

SuccessReturns == SelectSeq(single_returns, LAMBDA r : r.success)
RECURSIVE SumCalls(_)
SumCalls(returns) == IF returns = <<>> THEN 0 ELSE Head(returns).calls + SumCalls(Tail(returns))
NoUnexpectedError ==
    \A k \in 1..Len(results.errors) : results.errors[k].error.msg # "Unexpected error"

\* C20: within one call of _generate_single_rephrase the first attempt whose
\* cleaned text is longer than 5 characters ends the call: success is returned
\* at once, with attempt equal to the number of oracle calls made so far,
\* between 1 and max_retries, and no further oracle call is made for the style.
FirstUsableAttemptEnds ==
    HasResults =>
        /\ Len(SuccessReturns) = Len(results.rephrases)
        /\ \A k \in 1..Len(results.rephrases) :
              /\ results.rephrases[k].attempts = SuccessReturns[k].calls
              /\ results.rephrases[k].attempts \in 1..max_retries
              /\ Usable(results.rephrases[k].text)
        /\ NoUnexpectedError => gen_calls = SumCalls(single_returns) + calls
        /\ (op = "rephrase_comment" /\ pc = "done" /\ results.rephrases # <<>>) =>
              gen_calls = results.rephrases[1].attempts

FirstUsableAttemptEndsWitness ==
    /\ op = "rephrase_comment" /\ pc = "done"
    /\ max_retries = LegacyMaxRetries
    /\ Len(results.rephrases) = 1
    /\ results.rephrases[1].attempts = 2
    /\ gen_calls = 2

RECURSIVE SleptAfter(_, _, _)
SleptAfter(causes, transport_delay, status_delay) ==
    IF causes = <<>> THEN 0
    ELSE (IF Head(causes) = "exception" THEN transport_delay ELSE status_delay)
         + SleptAfter(Tail(causes), transport_delay, status_delay)

TransportCauses ==
    \A k \in 1..Len(reply_kinds) : reply_kinds[k] \in {"exception", "non200"}

\* C21 as stated: a non-200 reply and a RequestException are handled alike:
\* at the same position both are followed by the same delay, and a run of N
\* such failures ends with the same error whichever of the two occurred.
TransportFaultsAlikeStep ==
    /\ (pc = "generate" /\ TransportCauses) =>
          slept = SleptAfter(reply_kinds, SoftFailureSleep, SoftFailureSleep)
    /\ (ReportsError /\ TransportCauses /\ max_retries > 0) =>
          results'.errors[Len(results'.errors)].error.msg
              \in {"Failed to generate rephrase after N attempts", "Unexpected error"}

TransportFaultsAlike == [][TransportFaultsAlikeStep]_vars

\* C21 amended: a non-200 reply and a RequestException are both retried within
\* the budget, but not alike: a non-200 reply is followed by a delay of 1 and
\* a RequestException by a delay of 2, and a non-200 reply at the last attempt
\* ends with 'Failed to generate', a RequestException with 'Request failed'.
TransportFaultsRetriedStep ==
    /\ pc = "generate" =>
          /\ attempt = Len(reply_kinds)
          /\ slept = SleptAfter(reply_kinds, TransportFaultSleep, SoftFailureSleep)
    /\ (ReportsError /\ reply_kinds # <<>> /\ gen_calls' = gen_calls) =>
          /\ reply_kinds[Len(reply_kinds)] # "exception"
          /\ results'.errors[Len(results'.errors)].error.msg
                = "Failed to generate rephrase after N attempts"
    /\ (ReportsError /\ gen_calls' = gen_calls + 1) =>
          results'.errors[Len(results'.errors)].error.msg
              \in {"Request failed after N attempts", "Unexpected error"}

TransportFaultsRetried == [][TransportFaultsRetriedStep]_vars

TransportFaultsRetriedWitness ==
    /\ pc = "generate"
    /\ reply_kinds = <<"exception", "non200">>
    /\ slept = TransportFaultSleep + SoftFailureSleep
    /\ attempt = 2

\* the prefix loop as the specification words it: the first listed prefix the
\* text starts with is removed and the loop ends
RECURSIVE RemoveFirstPrefix(_, _)
RemoveFirstPrefix(cleaned, i) ==
    IF i > Len(prefixes_to_remove) THEN cleaned
    ELSE IF StartsWith(Lower(cleaned), Lower(prefixes_to_remove[i]))
         THEN RemovePrefix(cleaned, prefixes_to_remove[i])
         ELSE RemoveFirstPrefix(cleaned, i + 1)

\* C22: _clean_response removes at most one scaffolding prefix: its result is
\* the text with the first matching prefix removed, and a listed prefix that
\* the remaining text starts with is kept.
AtMostOnePrefixRemoved ==
    Len(clean_runs) >= 2 =>
        clean_runs[2] =
            EnsurePunctuation(JoinSplit(RemoveQuotes(
                RemoveFirstPrefix(Strip(clean_runs[1]), 1))))

\* the request ended with an error message: in the response, or in the
\* record of a fault
EndedWithErrorMessage ==
    \/ status = 200 /\ ~IsNone(response.error_message)
    \/ status = 500 /\ ~IsNone(exc)

\* C23: when an analyze-comment request ends with an error message, the
\* record persisted for it carries the error text, truncated to 200
\* characters, in its errors field; the error texts are not empty, so the
\* field is not empty.
ErrorTextPersisted ==
    (AnalyzeDone /\ EndedWithErrorMessage /\ log # <<>> /\ Len(log) = log_appends) =>
        log[Len(log)].errors # <<>>

\* the improvements original score - rewrite score of a list of entries
Improvements(rephrases, original_score) ==
    {original_score - rephrases[k].toxicity_score : k \in 1..Len(rephrases)}

MaxOf(S) == CHOOSE m \in S : \A x \in S : m >= x

\* the record a log row was built from: the one of the answered
\* analyze-comment request, or the one handed to log_analysis
LoggedRecord ==
    IF op = "analyze" THEN [rephrases |-> response.rephrases,
                            original_score |-> response.toxicity.score]
    ELSE [rephrases |-> request.analysis_data.rephrases,
          original_score |-> request.analysis_data.toxicity.score]

RecordLogged ==
    /\ pc = "done" /\ Len(log) = 1
    /\ \/ op = "analyze" /\ status = 200
       \/ op = "log_analysis" /\ DOMAIN request.analysis_data # {}

\* C24: the best_improvement of a log row is the maximum of original score -
\* rewrite score over all rephrase entries of the request, the fallback entry
\* included, also when every rewrite scores higher than the original.
BestImprovementIsMax ==
    (RecordLogged /\ LoggedRecord.rephrases # <<>>) =>
        log[1].best_improvement =
            MaxOf(Improvements(LoggedRecord.rephrases, LoggedRecord.original_score))

\* C25: export_filtered_logs leaves the primary log sink unchanged: for every
\* filter and every output path, the log itself included, the rows of the log
\* after the export are its rows before the export.
ExportLeavesLogUnchanged ==
    pc = "exported" => log = last_export.before

\* C26: every response analyze-comment returns has success = true, also when
\* every style failed, the fallback was used and error_message is set; a
\* failure is reported through an HTTP error only, whose body is a detail.
ReturnedResponseSucceeds ==
    AnalyzeDone =>
        /\ status = 200 => response.success = TRUE
        /\ status # 200 => /\ status \in {400, 500, 503}
                           /\ DOMAIN response = {"detail"}

ReturnedResponseSucceedsWitness ==
    /\ AnalyzeDone
    /\ status = 200
    /\ response.fallback_used
    /\ ~IsNone(response.error_message)
    /\ results.rephrases = <<>>
    /\ response.success = TRUE

\* a is b with some elements left out, the order kept
RECURSIVE IsSubsequence(_, _)
IsSubsequence(a, b) ==
    IF a = <<>> THEN TRUE
    ELSE IF b = <<>> THEN FALSE
    ELSE IF Head(a) = Head(b) THEN IsSubsequence(Tail(a), Tail(b))
    ELSE IsSubsequence(a, Tail(b))

StylesOf(rephrases) == [k \in 1..Len(rephrases) |-> rephrases[k].style]

\* the styles handed to the generation: request.styles[:max_rephrases]
RequestedStyles ==
    IF IsNone(request.styles) THEN <<>>
    ELSE ConvertStyles(PySliceTo(Get(request.styles), request.max_rephrases))

OnlyFallback(rephrases) == Len(rephrases) = 1 /\ rephrases[1].style = "fallback"

GenuineRewrites(rephrases) ==
    /\ rephrases # <<>>
    /\ \A k \in 1..Len(rephrases) : rephrases[k].style \in RephrasingStyle
    /\ IsSubsequence(StylesOf(rephrases), RequestedStyles)

\* C27: the rephrases list of a response is empty, or the single fallback
\* entry, or a non-empty list of genuine rewrites whose styles follow the
\* requested order; the fallback entry never stands beside a genuine rewrite,
\* and fallback_used is true exactly when the list is the single fallback entry.
RephrasesShape ==
    (AnalyzeDone /\ status = 200) =>
        /\ \/ response.rephrases = <<>>
           \/ OnlyFallback(response.rephrases)
           \/ GenuineRewrites(response.rephrases)
        /\ response.fallback_used <=> OnlyFallback(response.rephrases)

RephrasesShapeWitness ==
    /\ AnalyzeDone /\ status = 200
    /\ OnlyFallback(response.rephrases)
    /\ response.fallback_used
    /\ Len(RequestedStyles) = 2

RephrasesShapeGenuineWitness ==
    /\ AnalyzeDone /\ status = 200
    /\ Len(RequestedStyles) = 2
    /\ Len(response.rephrases) = 1
    /\ response.rephrases[1].style = RequestedStyles[2]
    /\ RequestedStyles[1] # RequestedStyles[2]

\* C28: in every record analyze-comment writes, rephrasing_requested equals
\* rephrasing_successful, and both are true exactly when the rephrases list of
\* the record is not empty: a fallback-only response is recorded as
\* successful, and a request that asked for rephrasing and got no entry is
\* recorded as not requested.
RequestedEqualsSuccessful ==
    op = "analyze" =>
        /\ \A k \in 1..Len(log) :
              /\ log[k].rephrasing_requested = log[k].rephrasing_successful
              /\ log[k].rephrasing_successful <=> log[k].num_rephrases_generated > 0
        /\ (pc = "done" /\ status = 200 /\ log # <<>>) =>
              /\ log[1].num_rephrases_generated = Len(response.rephrases)
              /\ log[1].rephrasing_successful <=> response.rephrases # <<>>

RequestedEqualsSuccessfulWitness ==
    /\ AnalyzeDone /\ status = 200
    /\ request.include_rephrase
    /\ response.fallback_used
    /\ Len(log) = 1
    /\ log[1].rephrasing_requested /\ log[1].rephrasing_successful

NotRequestedWitness ==
    /\ AnalyzeDone /\ status = 200
    /\ request.include_rephrase
    /\ response.rephrases = <<>>
    /\ Len(log) = 1
    /\ ~log[1].rephrasing_requested

====
